---- MODULE Spec2Model ----
(***************************************************************************)
(* Blog microservices: the posts service (posts/index.js), the comments    *)
(* service (comments/index.js) and the event bus (event-bus/index.js).     *)
(* Every Express handler is one action; a handler that awaits its emit to  *)
(* the event bus is split at the await.  The React client's components     *)
(* (client/src) are modelled by their state; every event handler, promise  *)
(* continuation and timer callback is one action.                          *)
(***************************************************************************)
EXTENDS Integers, Sequences, FiniteSets, TLC

\* ------------------------------------------------------------------ bounds
MaxCreates == 2              \* create requests accepted over a run
MaxPublish == 2              \* events published to the bus by other services
MaxLen == 2                  \* characters typed into an input of the client
MaxComments == 2             \* comments in the answer to a fetch of the client
MaxFetches == 2              \* calls of fetchData by one CommentList
MaxClicks == 3               \* clicks on the dark mode toggle

\* ------------------------------------------------------------- input values
Undefined == "<undefined>"   \* the JavaScript value undefined (absent field)
Ids == {"0a0a0a0a", "1b1b1b1b"}           \* randomBytes(4).toString('hex')
Titles == {"Hello", Undefined}
Contents == {"Nice", "", Undefined}
ModStatuses == {"approved", "rejected"}
Participants == {"posts", "comments", "query", "moderation"}
Receivers == {"posts", "comments"}        \* participants whose code is modelled
EmptyObject == << >>                      \* the JSON value {}

VARIABLES
  posts,             \* posts/index.js: posts, id -> {id, title}
  commentsByPostId,  \* comments/index.js: postId -> array of {id, content, status}
  events,            \* event-bus/index.js: events, the log
  reqs,              \* create requests: the handler's locals and its position
  issued,            \* per participant, the outbound calls the bus has made
  outbox,            \* outbound calls of the bus that have not settled yet
  origin,            \* per log entry, who published it: [svc, req] (req 0: no create)
  npub,              \* number of events published by other services
  busUp,             \* the event bus's process is running
  received,          \* per receiver, the bus's calls that arrived, in order of arrival
  resp,              \* the HTTP response sent by the last step (NoResponse: none)
  form,              \* client: per form component, its useState values and its request
  commentList,       \* client: CommentList's prop, useState values and fetches
  postList,          \* client: PostList's useState values and its fetch
  app                \* client: App's darkMode, document.body and localStorage

serverVars ==
  <<posts, commentsByPostId, events, reqs, issued, outbox, origin, npub, busUp,
    received, resp>>

clientVars == <<form, commentList, postList, app>>

vars == <<serverVars, clientVars>>

\* ------------------------------------------------------------------ events
PostCreated(id, title) ==
  [type |-> "PostCreated", data |-> [id |-> id, title |-> title]]

CommentCreated(id, content, postId) ==
  [type |-> "CommentCreated",
   data |-> [id |-> id, content |-> content, postId |-> postId, status |-> "pending"]]

CommentModerated(postId, id, status) ==
  [type |-> "CommentModerated",
   data |-> [postId |-> postId, id |-> id, status |-> status]]

\* events that reach the bus or a receiver from outside the two content services
ModeratedEvents ==
  {CommentModerated(p, i, s) : p \in Ids, i \in Ids, s \in ModStatuses}

ForeignEvents ==
  ModeratedEvents \cup {[type |-> "CommentModerated"], [type |-> "PostDeleted"]}

\* the events a receiver is sent: foreign ones and ones the services emit
AllEvents ==
  ForeignEvents
    \cup {PostCreated(i, "Hello") : i \in Ids}
    \cup {CommentCreated(i, "Nice", p) : i \in Ids, p \in Ids}

\* one event of every kind, for a receiver that looks at the type only
OfEachType ==
  {PostCreated("0a0a0a0a", "Hello"), CommentCreated("1b1b1b1b", "Nice", "0a0a0a0a"),
   CommentModerated("0a0a0a0a", "1b1b1b1b", "approved"), [type |-> "CommentModerated"],
   [type |-> "PostDeleted"]}

\* the events other services publish on the bus in the bus's own specification
BusSample == OfEachType \ {[type |-> "PostDeleted"]}

\* a step's output: the HTTP response it sends and the line it writes to the console
NoResponse ==
  [svc |-> "none", route |-> "none", status |-> 0, body |-> EmptyObject, logged |-> ""]

HasData(e) == "data" \in DOMAIN e

\* --------------------------------------------------------------- posts service
\* mutant: the assignment replaces the whole collection
PostsStoreOnly(p, id, title) ==
  [k \in {id} |-> [id |-> id, title |-> title]]

\* mutant: the record is stored after the await, not before it
PostsStoreLate(p, id, title) == p

\* posts[id] = { id, title }
PostsStore(p, id, title) ==
  [k \in DOMAIN p \cup {id} |-> IF k = id THEN [id |-> id, title |-> title] ELSE p[k]]

\* mutant: the catch sends the event once more before giving up
OnEmitErrorRetry(ctx) ==
  IF ctx.failures = 0
  THEN [ctx EXCEPT !.failures = @ + 1]
  ELSE [ctx EXCEPT !.pc = "done", !.emit = "failed", !.failures = @ + 1]

\* await axios.post(...).catch(err => console.log(err.message)): the rejection is
\* caught and the handler runs on to its end in the same turn of the event loop
OnEmitError(ctx) ==
  [ctx EXCEPT !.pc = "done", !.emit = "failed", !.failures = @ + 1]

\* await axios.post(...) resolves and the handler runs on to its end
OnEmitOk(ctx) ==
  [ctx EXCEPT !.pc = "done", !.emit = "ok"]

\* mutant: a failed emit is answered with an error
PostsCreateResponseChecked(ctx, p) ==
  [svc |-> "posts", route |-> "POST /posts",
   status |-> IF ctx.emit = "failed" THEN 500 ELSE 201,
   body |-> IF ctx.id \in DOMAIN p THEN p[ctx.id] ELSE Undefined, logged |-> ""]

\* res.status(201).send(posts[id])
PostsCreateResponse(ctx, p) ==
  [svc |-> "posts", route |-> "POST /posts", status |-> 201,
   body |-> IF ctx.id \in DOMAIN p THEN p[ctx.id] ELSE Undefined, logged |-> ""]

\* ------------------------------------------------------------ comments service
\* mutant: an absent content is stored as the empty string
CommentsStoreDefaulted(c, postId, id, content) ==
  LET old == IF postId \in DOMAIN c THEN c[postId] ELSE << >>
      new == Append(old, [id |-> id,
                          content |-> IF content = Undefined THEN "" ELSE content,
                          status |-> "pending"])
  IN  [k \in DOMAIN c \cup {postId} |-> IF k = postId THEN new ELSE c[k]]

\* mutant: the post's list is replaced by one holding the new comment only
CommentsStoreFresh(c, postId, id, content) ==
  LET new == << [id |-> id, content |-> content, status |-> "pending"] >>
  IN  [k \in DOMAIN c \cup {postId} |-> IF k = postId THEN new ELSE c[k]]

\* comments.push(newComment); commentsByPostId[postId] = comments
CommentsStore(c, postId, id, content) ==
  LET old == IF postId \in DOMAIN c THEN c[postId] ELSE << >>
      new == Append(old, [id |-> id, content |-> content, status |-> "pending"])
  IN  [k \in DOMAIN c \cup {postId} |-> IF k = postId THEN new ELSE c[k]]

\* mutant: only the comments of posts the posts service stores are listed
CommentsListResponseKnownPosts(c, postId) ==
  [svc |-> "comments", route |-> "GET /posts/:id/comments", status |-> 200,
   body |-> IF postId \in DOMAIN c /\ postId \in DOMAIN posts THEN c[postId] ELSE << >>,
   logged |-> ""]

\* res.send(commentsByPostId[req.params.id] || [])
CommentsListResponse(c, postId) ==
  [svc |-> "comments", route |-> "GET /posts/:id/comments", status |-> 200,
   body |-> IF postId \in DOMAIN c THEN c[postId] ELSE << >>,
   logged |-> ""]

\* res.status(201).send(comments)
CommentsCreateResponse(ctx, c) ==
  [svc |-> "comments", route |-> "POST /posts/:id/comments", status |-> 201,
   body |-> c[ctx.postId], logged |-> ""]

\* comments.find(comment => comment.id === id): index of the first match, 0 if none
RECURSIVE FindFrom(_, _, _)
FindFrom(list, id, i) ==
  IF i > Len(list) THEN 0
  ELSE IF list[i].id = id THEN i
  ELSE FindFrom(list, id, i + 1)

Find(list, id) == FindFrom(list, id, 1)

\* mutant: the status is written to every comment of the post
ModerateAll(c, d) ==
  IF d.postId \in DOMAIN c
  THEN [c EXCEPT ![d.postId] = [j \in DOMAIN @ |-> [@[j] EXCEPT !.status = d.status]]]
  ELSE c

\* mutant: an updated copy is pushed instead of overwriting the comment in place
ModerateCopy(c, d) ==
  IF d.postId \in DOMAIN c
  THEN LET i == Find(c[d.postId], d.id)
       IN  IF i # 0
           THEN [c EXCEPT ![d.postId] = Append(@, [@[i] EXCEPT !.status = d.status])]
           ELSE c
  ELSE c

\* mutant: a comment that is not found is added with the event's status
ModerateUpsert(c, d) ==
  LET old == IF d.postId \in DOMAIN c THEN c[d.postId] ELSE << >>
      i == Find(old, d.id)
      new == IF i # 0 THEN [old EXCEPT ![i].status = d.status]
             ELSE Append(old, [id |-> d.id, content |-> Undefined, status |-> d.status])
  IN  [k \in DOMAIN c \cup {d.postId} |-> IF k = d.postId THEN new ELSE c[k]]

\* const comments = commentsByPostId[postId]; if (comments) { ... comment.status = status }
Moderate(c, d) ==
  IF d.postId \in DOMAIN c
  THEN LET i == Find(c[d.postId], d.id)
       IN  IF i # 0 THEN [c EXCEPT ![d.postId][i].status = d.status] ELSE c
  ELSE c

\* mutant: CommentCreated events are applied as well
RecognizedLoose(e) == e.type \in {"CommentModerated", "CommentCreated"}

\* if (type === 'CommentModerated')
Recognized(e) == e.type = "CommentModerated"

\* const { postId, id, status, content } = data  throws a TypeError when data is undefined
CommentsEventThrows(e) == Recognized(e) /\ ~HasData(e)

CommentsOnEvent(c, e) ==
  IF Recognized(e) /\ HasData(e) THEN Moderate(c, e.data) ELSE c

\* res.send({}), or Express's error handler when the handler threw
CommentsEventResponse(e) ==
  IF CommentsEventThrows(e)
  THEN [svc |-> "comments", route |-> "POST /events", status |-> 500,
        body |-> [error |-> "TypeError"], logged |-> e.type]
  ELSE [svc |-> "comments", route |-> "POST /events", status |-> 200,
        body |-> EmptyObject, logged |-> e.type]

\* console.log('Received Event', req.body.type); res.send({})
PostsEventResponse(e) ==
  [svc |-> "posts", route |-> "POST /events", status |-> 200, body |-> EmptyObject,
   logged |-> e.type]

\* ------------------------------------------------------------------ event bus
\* mutant: events.unshift(event)
BusPrepend(log, e) == << e >> \o log

\* events.push(event)
BusAppend(log, e) == Append(log, e)

\* mutant: the event is not sent back to the service it came from
BusTargetsButSender(src) == {"posts", "comments", "query", "moderation"} \ {src.svc}

\* axios.post('http://posts:4000/events', event); ... comments, query, moderation:
\* the same four calls whoever sent the event
BusTargets(src) == {"posts", "comments", "query", "moderation"}

\* mutant: a participant's calls settle in the order they were issued
DeliverableInOrder(box) ==
  {d \in box : \A o \in box : o.to = d.to => d.k <= o.k}

\* the calls that can settle next: the axios.post calls are not awaited and each
\* is a request of its own, so any call in flight can
Deliverable(box) == box

\* res.send({ status: 'OK' })
BusResponse ==
  [svc |-> "event-bus", route |-> "POST /events", status |-> 200,
   body |-> [status |-> "OK"], logged |-> ""]

\* the service that emits events of e's type
Publisher(e) ==
  IF e.type = "PostCreated" THEN "posts"
  ELSE IF e.type = "CommentCreated" THEN "comments"
  ELSE "moderation"

\* the whole handler of POST /events; src tells who sent e
BusAccept(e, src) ==
  /\ busUp
  /\ UNCHANGED busUp
  /\ events' = BusAppend(events, e)
  /\ issued' = [p \in Participants |->
                  IF p \in BusTargets(src) THEN Append(issued[p], e) ELSE issued[p]]
  /\ outbox' = outbox \cup
                 {[to |-> p, k |-> Len(issued[p]) + 1] : p \in BusTargets(src) \cap Receivers}
  /\ origin' = Append(origin, src)
  /\ resp' = BusResponse

\* --------------------------------------------------- client: form components
Components == {"PostCreate", "CommentCreate"}

\* what can be typed into an input: strings of at most MaxLen characters
Chars == {" ", "a"}
Whitespace == {" "}
Texts == UNION {[1..n -> Chars] : n \in 0..MaxLen}

\* String.prototype.trim
RECURSIVE TrimStart(_)
TrimStart(t) ==
  IF t # << >> /\ Head(t) \in Whitespace THEN TrimStart(Tail(t)) ELSE t

RECURSIVE TrimEnd(_)
TrimEnd(t) ==
  IF t # << >> /\ t[Len(t)] \in Whitespace THEN TrimEnd(SubSeq(t, 1, Len(t) - 1)) ELSE t

Trim(t) == TrimEnd(TrimStart(t))

ValidationMessage(k) ==
  IF k = "PostCreate" THEN "Please enter a post title" ELSE "Please enter a comment"

FailureMessage(k) ==
  IF k = "PostCreate" THEN "Failed to create post. Please try again."
  ELSE "Failed to post comment. Please try again."

NoRequest == [sent |-> FALSE, body |-> << >>]

\* the useState initial values; text is PostCreate's title, CommentCreate's content
InitialForm ==
  [text |-> << >>, isSubmitting |-> FALSE, error |-> "", success |-> FALSE,
   inputClass |-> "form-input", request |-> NoRequest]

\* mutant: the validation tests the text as typed
OnSubmitUntrimmed(k, f) ==
  IF f.text = << >>
  THEN [f EXCEPT !.error = ValidationMessage(k), !.inputClass = "form-input error"]
  ELSE [f EXCEPT !.isSubmitting = TRUE, !.error = "", !.inputClass = "form-input",
                 !.request = [sent |-> TRUE, body |-> Trim(f.text)]]

\* onSubmit up to the await
OnSubmit(k, f) ==
  IF Trim(f.text) = << >>
  THEN [f EXCEPT !.error = ValidationMessage(k), !.inputClass = "form-input error"]
  ELSE [f EXCEPT !.isSubmitting = TRUE, !.error = "", !.inputClass = "form-input",
                 !.request = [sent |-> TRUE, body |-> Trim(f.text)]]

\* mutant: the text is not cleared
OnResolvedKeepsText(k, f) ==
  [f EXCEPT !.success = TRUE, !.inputClass = "form-input success",
            !.isSubmitting = FALSE, !.request = NoRequest]

\* onSubmit after the await resolved: the try block's end, then finally
OnResolved(k, f) ==
  [f EXCEPT !.text = << >>, !.success = TRUE, !.inputClass = "form-input success",
            !.isSubmitting = FALSE, !.request = NoRequest]

\* mutant: no finally block
OnRejectedStuck(k, f) ==
  [f EXCEPT !.error = FailureMessage(k), !.inputClass = "form-input error",
            !.request = NoRequest]

\* onSubmit after the await rejected: catch, then finally
OnRejected(k, f) ==
  [f EXCEPT !.error = FailureMessage(k), !.inputClass = "form-input error",
            !.isSubmitting = FALSE, !.request = NoRequest]

\* mutant: typing removes the message and leaves the input class alone
OnChangeKeepsClass(f, v) == [f EXCEPT !.text = v, !.error = ""]

\* the input's onChange
OnChange(f, v) ==
  IF f.error # ""
  THEN [f EXCEPT !.text = v, !.error = "", !.inputClass = "form-input"]
  ELSE [f EXCEPT !.text = v]

\* mutant: the callback leaves the input class alone
OnErrorTimerKeepsClass(f) == [f EXCEPT !.error = ""]

\* the callback of the error effect's setTimeout
OnErrorTimer(f) == [f EXCEPT !.error = "", !.inputClass = "form-input"]

\* the callback of the success effect's setTimeout
OnSuccessTimer(f) == [f EXCEPT !.success = FALSE]

\* what is rendered
ErrorShown(f) == f.error # ""

SuccessShown(f) == f.success

InputDisabled(f) == f.isSubmitting

\* mutant: PostCreate's button tests the title as CommentCreate's tests the content
ButtonDisabledOnBlank(k, f) == f.isSubmitting \/ Trim(f.text) = << >>

\* disabled={isSubmitting || !content.trim()} in CommentCreate, disabled={isSubmitting}
\* in PostCreate
ButtonDisabled(k, f) ==
  IF k = "CommentCreate" THEN f.isSubmitting \/ Trim(f.text) = << >> ELSE f.isSubmitting

\* ------------------------------------------------------- client: CommentList
\* the comments an answer to GET /posts/:id/comments can carry; a missing field
\* reads as undefined
Statuses == {"approved", "pending", "rejected", "unknown", Undefined}

FetchedContents == {"Nice", Undefined}

FetchedComments == [id : Ids, content : FetchedContents, status : Statuses]

FetchedLists == UNION {[1..n -> FetchedComments] : n \in 0..MaxComments}

\* response.data: an array, or something that is not one (null, an object)
FetchedData ==
  [isArray : {TRUE}, value : FetchedLists] \cup {[isArray |-> FALSE, value |-> << >>]}

NoData == [isArray |-> FALSE, value |-> << >>]

\* a few of these answers: no list, the empty list, one comment of either post
FetchedSample ==
  {d \in FetchedData :
     \/ ~d.isArray
     \/ Len(d.value) = 0
     \/ /\ Len(d.value) = 1
        /\ d.value[1].content = "Nice"
        /\ d.value[1].status \in {"approved", "pending"}}

PendingText == "This comment is awaiting moderation"
RejectedText == "This comment has been rejected"

\* the useState initial values with the mount effect's fetchData() under way.
\* fetches holds the calls of fetchData whose axios.get is in flight, each with its
\* number and the postId its closure captured; started counts the calls; data is
\* the last answer that came; settled lists the calls that ended, in that order
InitialList ==
  [postId |-> "0a0a0a0a", comments |-> << >>, isLoading |-> TRUE,
   fetches |-> {[n |-> 1, postId |-> "0a0a0a0a"]}, started |-> 1, data |-> NoData,
   settled |-> << >>]

\* the postId prop changes: fetchData is a new function, the effect runs again and
\* calls it, up to its await; nothing is done about a fetch already in flight
OnPostId(l, p) ==
  [l EXCEPT !.postId = p, !.isLoading = TRUE, !.started = @ + 1,
            !.fetches = @ \cup {[n |-> l.started + 1, postId |-> p]}]

\* fetchData of call f after the await resolved
OnFetched(l, f, d) ==
  [l EXCEPT !.comments = IF d.isArray THEN d.value ELSE << >>,
            !.isLoading = FALSE, !.fetches = @ \ {f}, !.data = d,
            !.settled = Append(@, [n |-> f.n, ok |-> TRUE, data |-> d])]

\* mutant: no finally block, the failure leaves the spinner
OnFetchErrorStillLoading(l, f) ==
  [l EXCEPT !.comments = << >>, !.fetches = @ \ {f},
            !.settled = Append(@, [n |-> f.n, ok |-> FALSE, data |-> NoData])]

\* fetchData of call f after the await rejected
OnFetchError(l, f) ==
  [l EXCEPT !.comments = << >>, !.isLoading = FALSE, !.fetches = @ \ {f},
            !.settled = Append(@, [n |-> f.n, ok |-> FALSE, data |-> NoData])]

\* mutant: the default case shows nothing
GetCommentContentKnownOnly(comment) ==
  CASE comment.status = "approved" -> comment.content
    [] comment.status = "pending" -> PendingText
    [] comment.status = "rejected" -> RejectedText
    [] OTHER -> ""

\* getCommentContent
GetCommentContent(comment) ==
  CASE comment.status = "approved" -> comment.content
    [] comment.status = "pending" -> PendingText
    [] comment.status = "rejected" -> RejectedText
    [] OTHER -> comment.content

\* getCommentClass: `comment-item ${status}`
GetCommentClass(status) == << "comment-item", status >>

\* what CommentList renders
RenderedList(l) ==
  IF l.isLoading
  THEN [loading |-> TRUE, count |-> 0, empty |-> FALSE, items |-> << >>]
  ELSE [loading |-> FALSE, count |-> Len(l.comments), empty |-> Len(l.comments) = 0,
        items |-> [i \in DOMAIN l.comments |->
                     [key |-> l.comments[i].id,
                      class |-> GetCommentClass(l.comments[i].status),
                      text |-> GetCommentContent(l.comments[i])]]]

\* ---------------------------------------------------------- client: PostList
\* the posts an answer to GET /posts can carry: an object keyed by post id
FetchedPosts ==
  UNION {[S -> [id : Ids, title : {"Hello", Undefined}]] : S \in SUBSET Ids}

\* response.data: null, or an object
FetchedPostsData ==
  [isNull : {FALSE}, value : FetchedPosts] \cup {[isNull |-> TRUE, value |-> EmptyObject]}

\* useState({}) and useState(true) with the mount effect's fetchPosts() under way;
\* outcome tells how its axios.get ended
InitialPosts ==
  [posts |-> [isNull |-> FALSE, value |-> EmptyObject], isLoading |-> TRUE,
   fetching |-> TRUE, outcome |-> "none"]

\* fetchPosts after the await resolved
OnPostsFetched(l, d) ==
  [l EXCEPT !.posts = d, !.isLoading = FALSE, !.fetching = FALSE,
            !.outcome = "resolved"]

\* fetchPosts after the await rejected
OnPostsFetchError(l) ==
  [l EXCEPT !.isLoading = FALSE, !.fetching = FALSE, !.outcome = "rejected"]

\* Object.values(posts || {}), as the records by key
PostsArray(p) == IF p.isNull THEN EmptyObject ELSE p.value

\* what PostList renders
RenderedPosts(l) ==
  IF l.isLoading
  THEN [loading |-> TRUE, empty |-> FALSE, cards |-> {}]
  ELSE LET postsArray == PostsArray(l.posts)
       IN [loading |-> FALSE, empty |-> DOMAIN postsArray = {},
           cards |-> {postsArray[k] : k \in DOMAIN postsArray}]

\* --------------------------------------------------------------- client: App
\* localStorage.getItem('darkMode'): null when the key is absent, else the text
Absent == "<null>"

StoredValues == {Absent, "true", "false", "1", "null", "\"dark\"", "invalid-json"}

\* JSON.parse of a stored text: the type of the value, or a SyntaxError
JSONParse(text) ==
  CASE text = "true" -> [ok |-> TRUE, type |-> "boolean", truthy |-> TRUE]
    [] text = "false" -> [ok |-> TRUE, type |-> "boolean", truthy |-> FALSE]
    [] text = "1" -> [ok |-> TRUE, type |-> "number", truthy |-> TRUE]
    [] text = "null" -> [ok |-> TRUE, type |-> "object", truthy |-> FALSE]
    [] text = "\"dark\"" -> [ok |-> TRUE, type |-> "string", truthy |-> TRUE]
    [] OTHER -> [ok |-> FALSE, type |-> "SyntaxError", truthy |-> FALSE]

\* JSON.stringify of a boolean
JSONStringify(b) == IF b THEN "true" ELSE "false"

\* before ReactDOM renders App; found keeps the text localStorage held when App
\* mounted, base the mode its mount ended in, clicks counts the toggle's clicks
Unmounted ==
  [pc |-> "unmounted", darkMode |-> FALSE, bodyClass |-> "", stored |-> Absent,
   getThrows |-> FALSE, setThrows |-> FALSE, crashed |-> FALSE, found |-> Absent,
   base |-> FALSE, clicks |-> 0]

\* mutant: the load effect takes any parsed value for the mode
LoadEffectUnvalidated(a) ==
  IF a.getThrows THEN [threw |-> FALSE, set |-> TRUE, mode |-> FALSE]
  ELSE IF a.stored = Absent THEN [threw |-> FALSE, set |-> FALSE, mode |-> FALSE]
  ELSE LET parsedMode == JSONParse(a.stored)
       IN IF ~parsedMode.ok THEN [threw |-> FALSE, set |-> TRUE, mode |-> FALSE]
          ELSE [threw |-> FALSE, set |-> TRUE, mode |-> parsedMode.truthy]

\* the load effect: whether it throws, whether it calls setDarkMode, and with what
LoadEffect(a) ==
  IF a.getThrows THEN [threw |-> FALSE, set |-> TRUE, mode |-> FALSE]
  ELSE IF a.stored = Absent THEN [threw |-> FALSE, set |-> FALSE, mode |-> FALSE]
  ELSE LET parsedMode == JSONParse(a.stored)
       IN IF ~parsedMode.ok THEN [threw |-> FALSE, set |-> TRUE, mode |-> FALSE]
          ELSE IF parsedMode.type = "boolean"
               THEN [threw |-> FALSE, set |-> TRUE, mode |-> parsedMode.truthy]
               ELSE [threw |-> FALSE, set |-> TRUE, mode |-> FALSE]

\* the save effect under the rendered darkMode; a setItem that throws is caught
SaveEffect(a) ==
  [a EXCEPT !.bodyClass = IF a.darkMode THEN "dark-mode" ELSE "",
            !.stored = IF a.setThrows THEN @ ELSE JSONStringify(a.darkMode)]

\* the first render's effects, in their order: load, then save under the rendered
\* darkMode (false); the load effect's setDarkMode takes hold in the next render
OnMountEffects(a) ==
  LET load == LoadEffect(a)
      saved == SaveEffect(a)
      mode == IF load.set THEN load.mode ELSE a.darkMode
  IN [saved EXCEPT !.crashed = load.threw, !.darkMode = mode, !.base = mode,
                   !.pc = IF load.threw THEN "crashed"
                          ELSE IF mode # a.darkMode THEN "rerender" ELSE "ready"]

\* the render after the load effect changed darkMode: the save effect runs again
OnRerender(a) == [SaveEffect(a) EXCEPT !.pc = "ready"]

\* mutant: the toggle switches dark mode on
OnToggleSetsDark(a) ==
  SaveEffect([a EXCEPT !.darkMode = TRUE, !.clicks = @ + 1])

\* toggleDarkMode, the render it causes and that render's save effect
OnToggle(a) ==
  SaveEffect([a EXCEPT !.darkMode = ~a.darkMode, !.clicks = @ + 1])

\* ---------------------------------------------------------------------- Init
Init ==
  /\ posts = << >>
  /\ commentsByPostId = << >>
  /\ events = << >>
  /\ reqs = << >>
  /\ issued = [p \in Participants |-> << >>]
  /\ outbox = {}
  /\ origin = << >>
  /\ npub = 0
  /\ busUp = TRUE
  /\ received = [p \in Receivers |-> << >>]
  /\ resp = NoResponse
  /\ form = [k \in Components |-> InitialForm]
  /\ commentList = InitialList
  /\ postList = InitialPosts
  /\ app = Unmounted

\* ------------------------------------------------------------------- actions
\* GET /posts
PostsList ==
  /\ resp' = [svc |-> "posts", route |-> "GET /posts", status |-> 200, body |-> posts,
              logged |-> ""]
  /\ UNCHANGED <<posts, commentsByPostId, events, reqs, issued, outbox, origin, npub, busUp>>
  /\ UNCHANGED <<received, clientVars>>

\* POST /posts up to the await
PostsCreate(id, title) ==
  /\ Len(reqs) < MaxCreates
  /\ posts' = PostsStore(posts, id, title)
  /\ reqs' = Append(reqs, [svc |-> "posts", id |-> id, title |-> title,
                           pc |-> "emit", emit |-> "inflight", failures |-> 0])
  /\ resp' = NoResponse
  /\ UNCHANGED <<commentsByPostId, events, issued, outbox, origin, npub, busUp>>
  /\ UNCHANGED <<received, clientVars>>

\* GET /posts/:id/comments
CommentsList(postId) ==
  /\ resp' = CommentsListResponse(commentsByPostId, postId)
  /\ UNCHANGED <<posts, commentsByPostId, events, reqs, issued, outbox, origin, npub, busUp>>
  /\ UNCHANGED <<received, clientVars>>

\* POST /posts/:id/comments up to the await
CommentsCreate(postId, id, content) ==
  /\ Len(reqs) < MaxCreates
  /\ commentsByPostId' = CommentsStore(commentsByPostId, postId, id, content)
  /\ reqs' = Append(reqs, [svc |-> "comments", id |-> id, content |-> content,
                           postId |-> postId,
                           pc |-> "emit", emit |-> "inflight", failures |-> 0])
  /\ resp' = NoResponse
  /\ UNCHANGED <<posts, events, issued, outbox, origin, npub, busUp>>
  /\ UNCHANGED <<received, clientVars>>

\* the event a create request emits
EmittedEvent(ctx) ==
  IF ctx.svc = "posts" THEN PostCreated(ctx.id, ctx.title)
  ELSE CommentCreated(ctx.id, ctx.content, ctx.postId)

\* the answer of a create handler whose locals are ctx
CreateResponse(ctx) ==
  IF ctx.svc = "posts"
  THEN PostsCreateResponse(ctx, posts)
  ELSE CommentsCreateResponse(ctx, commentsByPostId)

\* the emit reaches the bus: the bus handles POST /events and answers; the answer
\* is on its way to the create handler
EmitAccepted(r) ==
  /\ r \in DOMAIN reqs
  /\ reqs[r].pc = "emit"
  /\ BusAccept(EmittedEvent(reqs[r]), [svc |-> reqs[r].svc, req |-> r])
  /\ reqs' = [reqs EXCEPT ![r].pc = "acked"]
  /\ UNCHANGED <<posts, commentsByPostId, npub>>
  /\ UNCHANGED <<received, clientVars>>

\* the bus's answer arrives: the create handler resumes after the await and answers
EmitResolved(r) ==
  /\ r \in DOMAIN reqs
  /\ reqs[r].pc = "acked"
  /\ reqs' = [reqs EXCEPT ![r] = OnEmitOk(@)]
  /\ resp' = CreateResponse(reqs'[r])
  /\ UNCHANGED <<posts, commentsByPostId, events, issued, outbox, origin, npub, busUp>>
  /\ UNCHANGED <<received, clientVars>>

\* the emit fails (the bus is unreachable): the catch logs the error, the create
\* handler resumes after the await and answers
EmitFailed(r) ==
  /\ r \in DOMAIN reqs
  /\ reqs[r].pc = "emit"
  /\ reqs' = [reqs EXCEPT ![r] = OnEmitError(@)]
  /\ resp' = IF reqs'[r].pc = "done"
             THEN [CreateResponse(reqs'[r]) EXCEPT !.logged = "err.message"]
             ELSE [NoResponse EXCEPT !.logged = "err.message"]
  /\ UNCHANGED <<posts, commentsByPostId, events, issued, outbox, origin, npub, busUp>>
  /\ UNCHANGED <<received, clientVars>>

\* POST /events on the bus from another service (moderation, or any client)
BusPublish(e) ==
  /\ npub < MaxPublish
  /\ npub' = npub + 1
  /\ BusAccept(e, [svc |-> Publisher(e), req |-> 0])
  /\ UNCHANGED <<posts, commentsByPostId, reqs>>
  /\ UNCHANGED <<received, clientVars>>

\* GET /events on the bus
BusHistory ==
  /\ busUp
  /\ resp' = [svc |-> "event-bus", route |-> "GET /events", status |-> 200, body |-> events,
              logged |-> ""]
  /\ UNCHANGED <<posts, commentsByPostId, events, reqs, issued, outbox, origin, npub, busUp>>
  /\ UNCHANGED <<received, clientVars>>

\* POST /events on the posts service
PostsEvents(e) ==
  /\ resp' = PostsEventResponse(e)
  /\ UNCHANGED <<posts, commentsByPostId, reqs, issued, origin, npub>>
  /\ UNCHANGED clientVars

\* POST /events on the comments service
CommentsEvents(e) ==
  /\ commentsByPostId' = CommentsOnEvent(commentsByPostId, e)
  /\ resp' = CommentsEventResponse(e)
  /\ UNCHANGED <<posts, reqs, issued, origin, npub>>
  /\ UNCHANGED clientVars

\* the promise of one of the bus's axios.post calls rejects; the call has no catch
\* and nothing awaits it, so the rejection is unhandled: the runtime either only
\* warns (exits = FALSE) or, as Node.js 15 and later do by default, ends the
\* process (exits = TRUE), and the log in its memory with it
UnhandledRejection(exits) ==
  IF exits /\ busUp
  THEN busUp' = FALSE /\ events' = << >>
  ELSE UNCHANGED <<events, busUp>>

\* an outbound call of the bus reaches its participant, which handles it; axios
\* rejects the call's promise when the answer is not a 2xx
Deliver(d, exits) ==
  /\ d \in Deliverable(outbox)
  /\ outbox' = outbox \ {d}
  /\ received' = [received EXCEPT ![d.to] = Append(@, d.k)]
  /\ IF d.to = "posts" THEN PostsEvents(issued[d.to][d.k])
                       ELSE CommentsEvents(issued[d.to][d.k])
  /\ IF resp'.status \in 200..299
     THEN UNCHANGED <<events, busUp>>
     ELSE UnhandledRejection(exits)

\* an outbound call of the bus fails (the participant is not running): axios
\* rejects the call's promise
DeliverFails(d, exits) ==
  /\ d \in Deliverable(outbox)
  /\ outbox' = outbox \ {d}
  /\ resp' = NoResponse
  /\ UnhandledRejection(exits)
  /\ UNCHANGED <<posts, commentsByPostId, reqs, issued, origin, npub>>
  /\ UNCHANGED <<received, clientVars>>

\* an event posted straight to the posts service's POST /events
PostsDirectEvent(e) ==
  /\ UNCHANGED <<outbox, events, busUp, received>>
  /\ PostsEvents(e)

\* an event posted straight to the comments service's POST /events
CommentsDirectEvent(e) ==
  /\ UNCHANGED <<outbox, events, busUp, received>>
  /\ CommentsEvents(e)

\* ----------------------------------------------------- client: form actions
\* the user changes the input's value; a disabled input takes no typing
Type(k, v) ==
  /\ ~InputDisabled(form[k])
  /\ v # form[k].text
  /\ form' = [form EXCEPT ![k] = OnChange(@, v)]
  /\ UNCHANGED <<serverVars, commentList, postList, app>>

\* the form's submit event; while a submission is in flight the input and the
\* button are disabled and nothing raises the event
Submit(k) ==
  /\ ~form[k].isSubmitting
  /\ form' = [form EXCEPT ![k] = OnSubmit(k, @)]
  /\ UNCHANGED <<serverVars, commentList, postList, app>>

\* the request's promise resolves
RequestSucceeds(k) ==
  /\ form[k].request.sent
  /\ form' = [form EXCEPT ![k] = OnResolved(k, @)]
  /\ UNCHANGED <<serverVars, commentList, postList, app>>

\* the request's promise rejects
RequestFails(k) ==
  /\ form[k].request.sent
  /\ form' = [form EXCEPT ![k] = OnRejected(k, @)]
  /\ UNCHANGED <<serverVars, commentList, postList, app>>

\* the error effect's timer runs out; the effect holds a timer exactly while error
\* is set (its cleanup clears the timer when error changes)
ErrorTimerFires(k) ==
  /\ form[k].error # ""
  /\ form' = [form EXCEPT ![k] = OnErrorTimer(@)]
  /\ UNCHANGED <<serverVars, commentList, postList, app>>

\* the success effect's timer runs out; the effect holds a timer exactly while
\* success is true
SuccessTimerFires(k) ==
  /\ form[k].success
  /\ form' = [form EXCEPT ![k] = OnSuccessTimer(@)]
  /\ UNCHANGED <<serverVars, commentList, postList, app>>

\* ------------------------------------------------- client: CommentList actions
\* the parent renders CommentList with another postId
ChangePostId(p) ==
  /\ p # commentList.postId
  /\ commentList.started < MaxFetches
  /\ commentList' = OnPostId(commentList, p)
  /\ UNCHANGED <<serverVars, form, postList, app>>

\* the axios.get of fetchData's call f resolves with response.data = d
FetchResolves(f, d) ==
  /\ f \in commentList.fetches
  /\ commentList' = OnFetched(commentList, f, d)
  /\ UNCHANGED <<serverVars, form, postList, app>>

\* the axios.get of fetchData's call f rejects
FetchRejects(f) ==
  /\ f \in commentList.fetches
  /\ commentList' = OnFetchError(commentList, f)
  /\ UNCHANGED <<serverVars, form, postList, app>>

\* ---------------------------------------------------- client: PostList actions
\* the axios.get of fetchPosts resolves with response.data = d
PostsFetchResolves(d) ==
  /\ postList.fetching
  /\ postList' = OnPostsFetched(postList, d)
  /\ UNCHANGED <<serverVars, form, commentList, app>>

\* the axios.get of fetchPosts rejects
PostsFetchRejects ==
  /\ postList.fetching
  /\ postList' = OnPostsFetchError(postList)
  /\ UNCHANGED <<serverVars, form, commentList, app>>

\* ---------------------------------------------------------- client: App actions
\* App renders for the first time in a browser whose localStorage holds text under
\* 'darkMode' (or nothing) and whose getItem and setItem throw or do not
AppMount(text, getThrows, setThrows) ==
  /\ app.pc = "unmounted"
  /\ app' = [app EXCEPT !.pc = "rendered", !.stored = text, !.found = text,
                         !.getThrows = getThrows, !.setThrows = setThrows]
  /\ UNCHANGED <<serverVars, form, commentList, postList>>

\* the effects of the first render run
MountEffects ==
  /\ app.pc = "rendered"
  /\ app' = OnMountEffects(app)
  /\ UNCHANGED <<serverVars, form, commentList, postList>>

\* the render the load effect asked for, and its save effect
Rerender ==
  /\ app.pc = "rerender"
  /\ app' = OnRerender(app)
  /\ UNCHANGED <<serverVars, form, commentList, postList>>

\* a click on the toggle, once the mount is over
ToggleDarkMode ==
  /\ app.pc = "ready"
  /\ app.clicks < MaxClicks
  /\ app' = OnToggle(app)
  /\ UNCHANGED <<serverVars, form, commentList, postList>>

\* ------------------------------------------------------------ specifications
\* the whole system
Next ==
  \/ PostsList
  \/ \E id \in Ids, title \in Titles : PostsCreate(id, title)
  \/ \E postId \in Ids : CommentsList(postId)
  \/ \E postId \in Ids, id \in Ids, content \in Contents : CommentsCreate(postId, id, content)
  \/ \E r \in 1..MaxCreates : EmitAccepted(r)
  \/ \E r \in 1..MaxCreates : EmitResolved(r)
  \/ \E r \in 1..MaxCreates : EmitFailed(r)
  \/ \E e \in ForeignEvents : BusPublish(e)
  \/ BusHistory
  \/ \E d \in outbox, exits \in BOOLEAN : Deliver(d, exits)
  \/ \E d \in outbox, exits \in BOOLEAN : DeliverFails(d, exits)
  \/ \E e \in ForeignEvents : PostsDirectEvent(e)
  \/ \E e \in ForeignEvents : CommentsDirectEvent(e)

Spec == Init /\ [][Next]_vars

\* the create path of both content services, with the bus accepting their emits;
\* the posts service is also sent events
NextCreate ==
  \/ PostsList
  \/ \E id \in Ids, title \in Titles : PostsCreate(id, title)
  \/ \E postId \in Ids, id \in Ids : CommentsCreate(postId, id, "Nice")
  \/ \E r \in 1..MaxCreates : EmitAccepted(r)
  \/ \E r \in 1..MaxCreates : EmitResolved(r)
  \/ \E r \in 1..MaxCreates : EmitFailed(r)
  \/ \E e \in OfEachType : PostsDirectEvent(e)

SpecCreate == Init /\ [][NextCreate]_vars

\* the comments service alone, created in with every kind of content
NextComments ==
  \/ \E postId \in Ids : CommentsList(postId)
  \/ \E postId \in Ids, id \in Ids, content \in Contents : CommentsCreate(postId, id, content)
  \/ \E r \in 1..MaxCreates : EmitAccepted(r)
  \/ \E r \in 1..MaxCreates : EmitResolved(r)
  \/ \E r \in 1..MaxCreates : EmitFailed(r)

SpecComments == Init /\ [][NextComments]_vars

\* the event receivers of both content services, sent any event by anyone while
\* the bus is unreachable for their own emits
NextEvents ==
  \/ \E id \in Ids, title \in Titles : PostsCreate(id, title)
  \/ \E postId \in Ids, id \in Ids : CommentsCreate(postId, id, "Nice")
  \/ \E r \in 1..MaxCreates : EmitFailed(r)
  \/ \E e \in OfEachType : PostsDirectEvent(e)
  \/ \E e \in AllEvents : CommentsDirectEvent(e)

SpecEvents == Init /\ [][NextEvents]_vars

\* the bus, published to by any service, and its calls to the participants
NextBus ==
  \/ \E e \in BusSample : BusPublish(e)
  \/ BusHistory
  \/ \E d \in outbox, exits \in BOOLEAN : Deliver(d, exits)
  \/ \E d \in outbox, exits \in BOOLEAN : DeliverFails(d, exits)

SpecBus == Init /\ [][NextBus]_vars

\* the two form components of the client, used in any way
NextForm ==
  \/ \E k \in Components, v \in Texts : Type(k, v)
  \/ \E k \in Components : Submit(k)
  \/ \E k \in Components : RequestSucceeds(k)
  \/ \E k \in Components : RequestFails(k)
  \/ \E k \in Components : ErrorTimerFires(k)
  \/ \E k \in Components : SuccessTimerFires(k)

SpecForm == Init /\ [][NextForm]_vars

\* a timer that stays set runs out
SpecFormLive ==
  /\ SpecForm
  /\ \A k \in Components : WF_vars(ErrorTimerFires(k)) /\ WF_vars(SuccessTimerFires(k))

\* CommentList from its mount to the end of its fetch
NextList ==
  \/ \E f \in commentList.fetches, d \in FetchedData : FetchResolves(f, d)
  \/ \E f \in commentList.fetches : FetchRejects(f)
  \/ \E d \in FetchedPostsData : PostsFetchResolves(d)
  \/ PostsFetchRejects

SpecList == Init /\ [][NextList]_vars

\* App's dark mode from its mount on
NextApp ==
  \/ \E text \in StoredValues, getThrows \in BOOLEAN, setThrows \in BOOLEAN :
       AppMount(text, getThrows, setThrows)
  \/ MountEffects
  \/ Rerender
  \/ ToggleDarkMode

SpecApp == Init /\ [][NextApp]_vars

\* a CommentList whose postId changes while its fetches are in flight
NextRefetch ==
  \/ \E p \in Ids : ChangePostId(p)
  \/ \E f \in commentList.fetches, d \in FetchedSample : FetchResolves(f, d)
  \/ \E f \in commentList.fetches : FetchRejects(f)

SpecRefetch == Init /\ [][NextRefetch]_vars

\* both content services creating and listing while the bus takes or misses
\* their emits
NextOrder ==
  \/ PostsList
  \/ \E id \in Ids : PostsCreate(id, "Hello")
  \/ \E postId \in Ids : CommentsList(postId)
  \/ \E postId \in Ids, id \in Ids : CommentsCreate(postId, id, "Nice")
  \/ \E r \in 1..MaxCreates : EmitAccepted(r)
  \/ \E r \in 1..MaxCreates : EmitResolved(r)
  \/ \E r \in 1..MaxCreates : EmitFailed(r)

SpecOrder == Init /\ [][NextOrder]_vars

\* -------------------------------------------------------------------- claims
\* C1: a GET /posts answered after a POST /posts has returned a record with
\* identifier i contains an entry under i, whatever creates and events came between
C1_CreatedPostIsListed ==
  [][PostsList =>
       \A r \in DOMAIN reqs :
         (reqs[r].svc = "posts" /\ reqs[r].pc = "done")
           => reqs[r].id \in DOMAIN resp'.body]_vars

\* a list answered after two creates with different identifiers, the first answered
C1_Witness ==
  /\ resp.route = "GET /posts"
  /\ \E r, q \in DOMAIN reqs :
       /\ r < q
       /\ reqs[r].svc = "posts" /\ reqs[q].svc = "posts"
       /\ reqs[r].pc = "done"
       /\ reqs[r].id # reqs[q].id
       /\ {reqs[r].id, reqs[q].id} \subseteq DOMAIN resp.body

\* the title of the last POST /posts that generated id
LastTitle(id) ==
  LET same == {q \in DOMAIN reqs : reqs[q].svc = "posts" /\ reqs[q].id = id}
      last == CHOOSE q \in same : \A o \in same : o <= q
  IN  reqs[last].title

OtherOutcome(ctx) ==
  [ctx EXCEPT !.emit = IF @ = "ok" THEN "failed" ELSE "ok"]

EventsOf(r) == {k \in DOMAIN origin : origin[k].req = r}

\* the record of a create request is in its service's collection
Stored(ctx) ==
  IF ctx.svc = "posts"
  THEN ctx.id \in DOMAIN posts
  ELSE /\ ctx.postId \in DOMAIN commentsByPostId
       /\ \E i \in DOMAIN commentsByPostId[ctx.postId] :
            commentsByPostId[ctx.postId][i].id = ctx.id

\* C3: a create whose emit failed keeps its record stored and never gets an event
\* into the bus's log; every create makes exactly one emit attempt
C3_FailedEmitLeavesNoEvent ==
  \A r \in DOMAIN reqs :
    /\ Stored(reqs[r])
    /\ reqs[r].failures > 0 => EventsOf(r) = {}
    /\ reqs[r].failures + Cardinality(EventsOf(r))
         = IF reqs[r].pc = "emit" THEN 0 ELSE 1
    /\ \A k \in EventsOf(r) : events[k] = EmittedEvent(reqs[r])

\* a create whose emit failed has been answered while the log holds the event of
\* another create that generated the same identifier
C3_Witness ==
  \E r, q \in DOMAIN reqs :
    /\ reqs[r].svc = reqs[q].svc
    /\ reqs[r].id = reqs[q].id
    /\ reqs[r].emit = "failed" /\ reqs[r].pc = "done"
    /\ EventsOf(q) # {}

\* C4: POST /posts/:id/comments appends, for any content (a string, the empty
\* string, an absent field), a comment with exactly that content and status
\* 'pending' to the list of that post id, and leaves every stored comment alone
C4_CommentStoredAsGiven ==
  [][\A p \in Ids, i \in Ids, c \in Contents :
       (Len(reqs') = Len(reqs) + 1 /\ CommentsCreate(p, i, c)) =>
         LET old == IF p \in DOMAIN commentsByPostId THEN commentsByPostId[p] ELSE << >>
         IN  /\ p \in DOMAIN commentsByPostId'
             /\ commentsByPostId'[p]
                  = old \o << [id |-> i, content |-> c, status |-> "pending"] >>
             /\ \A q \in DOMAIN commentsByPostId' \ {p} :
                  /\ q \in DOMAIN commentsByPostId
                  /\ commentsByPostId'[q] = commentsByPostId[q]]_vars

\* comments with an empty and with an absent content are stored as pending
C4_Witness ==
  \E p, q \in DOMAIN commentsByPostId :
    \E i \in DOMAIN commentsByPostId[p], j \in DOMAIN commentsByPostId[q] :
      /\ commentsByPostId[p][i].content = ""
      /\ commentsByPostId[q][j].content = Undefined
      /\ commentsByPostId[p][i].status = "pending"
      /\ commentsByPostId[q][j].status = "pending"

\* the comment CommentModerated event e is about: the first one stored under
\* e.data.postId with e.data.id (0: none)
Target(e) ==
  IF e.data.postId \in DOMAIN commentsByPostId
  THEN LET list == commentsByPostId[e.data.postId]
           hits == {i \in DOMAIN list : list[i].id = e.data.id}
       IN  IF hits = {} THEN 0 ELSE CHOOSE i \in hits : \A j \in hits : i <= j
  ELSE 0

\* C5: in every state, handling CommentModerated {postId, id, status} on the
\* comments service when a comment with that id is stored under that postId leaves
\* a collection in which that comment has the event's status and nothing else
\* differs: not its id or content, not any other stored comment
C5_ModerationSetsOnlyStatus ==
  \A e \in ModeratedEvents :
    Target(e) # 0 =>
      LET after == CommentsOnEvent(commentsByPostId, e)
      IN  /\ DOMAIN after = DOMAIN commentsByPostId
          /\ \A q \in DOMAIN commentsByPostId :
               /\ Len(after[q]) = Len(commentsByPostId[q])
               /\ \A j \in DOMAIN commentsByPostId[q] :
                    after[q][j] =
                      IF q = e.data.postId /\ j = Target(e)
                      THEN [id |-> commentsByPostId[q][j].id,
                            content |-> commentsByPostId[q][j].content,
                            status |-> e.data.status]
                      ELSE commentsByPostId[q][j]

\* a moderation event has just been applied: one comment of a post is approved, the
\* other one is still pending
C5_Witness ==
  /\ resp.svc = "comments" /\ resp.logged = "CommentModerated" /\ resp.status = 200
  /\ \E p \in DOMAIN commentsByPostId :
       /\ Len(commentsByPostId[p]) = 2
       /\ commentsByPostId[p][1].status = "approved"
       /\ commentsByPostId[p][2].status = "pending"

\* C6: a step in which the comments service handles an event of a type other than
\* 'CommentModerated', or the posts service an event of any type (the handler logs
\* the type), leaves both collections unchanged
C6_UnknownEventChangesNothing ==
  [][(/\ resp'.route = "POST /events"
      /\ \/ resp'.svc = "comments" /\ resp'.logged # "CommentModerated"
         \/ resp'.svc = "posts")
       => (commentsByPostId' = commentsByPostId /\ posts' = posts)]_vars

\* the comments service has just been sent a CommentCreated event while it stores
\* an approved comment
C6_Witness ==
  /\ resp.svc = "comments" /\ resp.logged = "CommentCreated"
  /\ \E p \in DOMAIN commentsByPostId :
       \E i \in DOMAIN commentsByPostId[p] : commentsByPostId[p][i].status = "approved"

\* C7: in every state of the comments service, delivering a CommentModerated event
\* twice in a row leaves the collection as delivering it once does
C7_ModerationIdempotent ==
  \A e \in {x \in AllEvents : x.type = "CommentModerated"} :
    CommentsOnEvent(CommentsOnEvent(commentsByPostId, e), e)
      = CommentsOnEvent(commentsByPostId, e)

\* a moderation event has just been delivered and its comment carries its status,
\* different from the one it was created with
C7_Witness ==
  /\ resp.svc = "comments" /\ resp.logged = "CommentModerated"
  /\ \E e \in ModeratedEvents :
       /\ Target(e) # 0
       /\ commentsByPostId[e.data.postId][Target(e)].status = e.data.status
       /\ e.data.status = "rejected"

\* C8 as claimed: every answer to POST /events on a content service is an empty
\* success body
C8_EventsAlwaysEmptySuccess ==
  (resp.route = "POST /events" /\ resp.svc \in Receivers)
    => (resp.status = 200 /\ resp.body = EmptyObject)

\* C9: until the bus's process exits, the log only grows at its end, by exactly the
\* event a POST /events carried; GET /events answers with the whole log
C9_LogAppendOnly ==
  [][busUp' =>
       /\ Len(events') >= Len(events)
       /\ SubSeq(events', 1, Len(events)) = events
       /\ \/ events' = events
          \/ \E e \in BusSample : BusPublish(e) /\ events' = events \o << e >>
       /\ BusHistory => resp'.body = events]_vars

\* GET /events has just answered with two different events in their order of arrival
C9_Witness ==
  /\ resp.svc = "event-bus" /\ resp.route = "GET /events"
  /\ resp.body = events
  /\ Len(events) = 2
  /\ events[1] # events[2]

\* C10: the bus has made the same calls to every participant, one per accepted
\* event and in the order of the log, the event's sender included, and a call is
\* only ever in flight for an event that was accepted
C10_OneCallPerParticipant ==
  /\ \A p \in Participants :
       /\ issued[p] = issued["posts"]
       /\ busUp => issued[p] = events
  /\ busUp => \A k \in DOMAIN events : issued[origin[k].svc][k] = events[k]
  /\ \A d \in outbox :
       /\ d.k \in DOMAIN issued[d.to]
       /\ busUp => (d.k \in DOMAIN events /\ issued[d.to][d.k] = events[d.k])

\* the log holds two events, one sent by the posts service, whose call back to the
\* posts service has settled
C10_Witness ==
  /\ Len(events) = 2
  /\ \E k \in DOMAIN events :
       /\ origin[k].svc = "posts"
       /\ k \in DOMAIN issued["posts"]
       /\ [to |-> "posts", k |-> k] \notin outbox

C12_IdentifiersUnique ==
  /\ \A p, q \in DOMAIN commentsByPostId :
       \A i \in DOMAIN commentsByPostId[p], j \in DOMAIN commentsByPostId[q] :
         (p # q \/ i # j) => commentsByPostId[p][i].id # commentsByPostId[q][j].id
  /\ Cardinality(DOMAIN posts)
       = Cardinality({r \in DOMAIN reqs : reqs[r].svc = "posts"})

\* C13 as claimed: no step removes or changes a stored post; no step removes a
\* stored comment or changes its id or content, and a step changes a comment's
\* status only when it is the comments service handling a CommentModerated event
C13_RecordsOnlyChangeByEvents ==
  [][/\ \A id \in DOMAIN posts : id \in DOMAIN posts' /\ posts'[id] = posts[id]
     /\ \A p \in DOMAIN commentsByPostId :
          /\ p \in DOMAIN commentsByPostId'
          /\ Len(commentsByPostId'[p]) >= Len(commentsByPostId[p])
          /\ \A i \in DOMAIN commentsByPostId[p] :
               /\ commentsByPostId'[p][i].id = commentsByPostId[p][i].id
               /\ commentsByPostId'[p][i].content = commentsByPostId[p][i].content
               /\ commentsByPostId'[p][i].status # commentsByPostId[p][i].status
                    => /\ resp'.svc = "comments"
                       /\ resp'.route = "POST /events"
                       /\ resp'.logged = "CommentModerated"]_vars

\* C14: a comment created for a post id the posts service does not store is
\* answered with 201 and the list stored under that post id, which holds it, and
\* every GET /posts/:id/comments for that id from then on returns it
C14_CommentOfUnknownPostIsKept ==
  [][\A r \in DOMAIN reqs :
       (reqs[r].svc = "comments" /\ reqs[r].postId \notin DOMAIN posts) =>
         /\ (EmitResolved(r) \/ EmitFailed(r)) =>
              /\ resp'.status = 201
              /\ resp'.body = commentsByPostId'[reqs[r].postId]
              /\ \E i \in DOMAIN resp'.body :
                   /\ resp'.body[i].id = reqs[r].id
                   /\ resp'.body[i].content = reqs[r].content
         /\ CommentsList(reqs[r].postId) =>
              \E i \in DOMAIN resp'.body :
                /\ resp'.body[i].id = reqs[r].id
                /\ resp'.body[i].content = reqs[r].content]_vars

\* GET /posts/:id/comments has just returned two comments of a post although the
\* posts service stores no post at all
C14_Witness ==
  /\ resp.route = "GET /posts/:id/comments"
  /\ Len(resp.body) = 2
  /\ DOMAIN posts = {}
  /\ \E r \in DOMAIN reqs :
       /\ reqs[r].svc = "comments" /\ reqs[r].pc = "done"
       /\ resp.body = commentsByPostId[reqs[r].postId]

\* a text that is empty or holds whitespace only
Blank(t) == \A i \in DOMAIN t : t[i] \in Whitespace

\* C15: a submit event while the entered text is empty or whitespace-only sends no
\* request and does not enter the submitting state; it shows the component's
\* validation message and sets the input class to 'form-input error'
C15_BlankSubmitIsRejected ==
  [][\A k \in Components :
       (Submit(k) /\ Blank(form[k].text)) =>
         /\ ~form'[k].request.sent
         /\ ~form'[k].isSubmitting
         /\ ErrorShown(form'[k])
         /\ form'[k].error = ValidationMessage(k)
         /\ form'[k].inputClass = "form-input error"
         /\ form'[k].text = form[k].text]_vars

\* both components show their validation message over a whitespace-only text
C15_Witness ==
  \A k \in Components :
    /\ form[k].text # << >> /\ Blank(form[k].text)
    /\ form[k].error = ValidationMessage(k)
    /\ form[k].inputClass = "form-input error"
    /\ ~form[k].request.sent

\* C16: a submit event over a text that is not blank sends the request; while a
\* request is in flight the input and the button are disabled; the step in which
\* the request settles, resolved or rejected, leaves the submitting state and
\* enables the input
C16_DisabledWhileInFlight ==
  [][\A k \in Components :
       /\ (Submit(k) /\ ~Blank(form[k].text)) => form'[k].request.sent
       /\ form'[k].request.sent =>
            (InputDisabled(form'[k]) /\ ButtonDisabled(k, form'[k]))
       /\ (form[k].request.sent /\ ~form'[k].request.sent) =>
            (~form'[k].isSubmitting /\ ~InputDisabled(form'[k]))]_vars

\* PostCreate's request is in flight with its controls disabled while
\* CommentCreate's request has failed and its input is enabled again
C16_Witness ==
  /\ form["PostCreate"].request.sent
  /\ InputDisabled(form["PostCreate"])
  /\ form["CommentCreate"].error = FailureMessage("CommentCreate")
  /\ ~form["CommentCreate"].request.sent
  /\ ~InputDisabled(form["CommentCreate"])

\* C17: the step in which a request resolves clears the text, shows the success
\* message and sets the input class to 'form-input success'; a success message
\* that is shown is eventually removed
C17_SuccessShownThenRemoved ==
  /\ [][\A k \in Components :
          RequestSucceeds(k) =>
            /\ form'[k].text = << >>
            /\ SuccessShown(form'[k])
            /\ form'[k].inputClass = "form-input success"]_vars
  /\ \A k \in Components : SuccessShown(form[k]) ~> ~SuccessShown(form[k])

\* a submission of a text that is not blank has succeeded
C17_Witness ==
  \E k \in Components :
    /\ SuccessShown(form[k])
    /\ form[k].text = << >>
    /\ form[k].inputClass = "form-input success"
    /\ ~form[k].isSubmitting

\* C18: the step in which a request rejects shows the failure message, sets the
\* input class to 'form-input error' and keeps the text; a failure message that is
\* shown is eventually removed with the input class back at 'form-input'
C18_FailureShownThenRemoved ==
  /\ [][\A k \in Components :
          RequestFails(k) =>
            /\ form'[k].error = FailureMessage(k)
            /\ form'[k].inputClass = "form-input error"
            /\ form'[k].text = form[k].text]_vars
  /\ \A k \in Components :
       (form[k].error = FailureMessage(k))
         ~> (~ErrorShown(form[k]) /\ form[k].inputClass = "form-input")

\* a submission has failed: the failure message is shown over the text as typed
C18_Witness ==
  \E k \in Components :
    /\ form[k].error = FailureMessage(k)
    /\ form[k].inputClass = "form-input error"
    /\ form[k].text = << "a", " " >>
    /\ ~form[k].isSubmitting

\* C19: CommentCreate's button is disabled exactly when its request is in flight or
\* its content is blank; PostCreate's exactly when its request is in flight
C19_ButtonEnablement ==
  /\ ButtonDisabled("CommentCreate", form["CommentCreate"])
       <=> (form["CommentCreate"].request.sent \/ Blank(form["CommentCreate"].text))
  /\ ButtonDisabled("PostCreate", form["PostCreate"])
       <=> form["PostCreate"].request.sent

\* PostCreate's button is enabled over a whitespace-only title while CommentCreate's
\* is disabled by a request in flight over a content that is not blank
C19_Witness ==
  /\ form["PostCreate"].text = << " " >>
  /\ ~ButtonDisabled("PostCreate", form["PostCreate"])
  /\ form["CommentCreate"].request.sent
  /\ ~Blank(form["CommentCreate"].text)
  /\ ButtonDisabled("CommentCreate", form["CommentCreate"])

\* C20: once a fetch has answered with a list, CommentList shows one item per
\* fetched comment, in order: the comment's content when its status is 'approved',
\* the awaiting-moderation text when 'pending', the rejected text when 'rejected',
\* and the comment's content for any other or missing status; the count in the
\* title is the number of fetched comments
C20_TextChosenByStatus ==
  (/\ commentList.fetches = {}
   /\ commentList.settled # << >>
   /\ commentList.settled[Len(commentList.settled)].ok
   /\ commentList.data.isArray) =>
    LET v == RenderedList(commentList)
        fetched == commentList.data.value
    IN  /\ ~v.loading
        /\ v.count = Len(fetched)
        /\ Len(v.items) = Len(fetched)
        /\ \A i \in DOMAIN fetched :
             v.items[i].text =
               IF fetched[i].status = "pending" THEN PendingText
               ELSE IF fetched[i].status = "rejected" THEN RejectedText
               ELSE fetched[i].content

\* two comments were fetched, a pending one and one without a status: the list
\* shows the placeholder and then the second comment's content
C20_Witness ==
  /\ commentList.fetches = {}
  /\ RenderedList(commentList).count = 2
  /\ commentList.data.value[1].status = "pending"
  /\ commentList.data.value[2].status = Undefined
  /\ commentList.data.value[2].content = "Nice"
  /\ RenderedList(commentList).items[1].text = PendingText
  /\ RenderedList(commentList).items[2].text = "Nice"

\* the record a creation event tells of is in the store of the service that
\* emits events of that type: its id for a post, its id under its postId for a comment
Present(e) ==
  IF e.type = "PostCreated"
  THEN e.data.id \in DOMAIN posts
  ELSE /\ e.data.postId \in DOMAIN commentsByPostId
       /\ \E i \in DOMAIN commentsByPostId[e.data.postId] :
            commentsByPostId[e.data.postId][i].id = e.data.id

\* C24: the record of a create is stored before its emit: in every state the event
\* of every create whose emit is pending, and every creation event in the bus's log,
\* tells of a record that is in the store, and the answer to a list request served
\* while an emit is pending holds that create's record
C24_StoredBeforeEmit ==
  /\ \A r \in DOMAIN reqs : reqs[r].pc = "emit" => Present(EmittedEvent(reqs[r]))
  /\ \A k \in DOMAIN events : Present(events[k])
  /\ \A r \in DOMAIN reqs :
       reqs[r].pc = "emit" =>
         /\ (resp.route = "GET /posts" /\ reqs[r].svc = "posts")
              => (reqs[r].id \in DOMAIN resp.body /\ resp.body[reqs[r].id].id = reqs[r].id)
         /\ (resp.route = "GET /posts/:id/comments" /\ reqs[r].svc = "comments"
               /\ resp.body = commentsByPostId[reqs[r].postId])
              => \E i \in DOMAIN resp.body : resp.body[i].id = reqs[r].id

\* GET /posts has just answered with a post whose emit is still pending, while the
\* log holds the event of a comment
C24_Witness ==
  /\ resp.route = "GET /posts"
  /\ \E r \in DOMAIN reqs :
       /\ reqs[r].svc = "posts" /\ reqs[r].pc = "emit"
       /\ reqs[r].id \in DOMAIN resp.body
  /\ \E k \in DOMAIN events : events[k].type = "CommentCreated"

\* the create requests for post id p, in the order they were received
RequestsFor(p) ==
  SelectSeq(reqs, LAMBDA ctx : ctx.svc = "comments" /\ ctx.postId = p)

\* C26: whatever way POST /posts/:id/comments requests overlap, the list stored for
\* a post id holds one comment per request for that id, with the request's content,
\* in the order the requests were received
C26_NoCommentLost ==
  \A p \in Ids :
    LET rs == RequestsFor(p)
    IN  IF p \in DOMAIN commentsByPostId
        THEN /\ Len(commentsByPostId[p]) = Len(rs)
             /\ \A i \in DOMAIN rs :
                  /\ commentsByPostId[p][i].id = rs[i].id
                  /\ commentsByPostId[p][i].content = rs[i].content
        ELSE rs = << >>

\* two requests for the same post id have overlapped (the event of the second is in
\* the log before the event of the first) and both are answered; the list holds
\* their comments in the order of the requests
C26_Witness ==
  /\ Len(reqs) = 2
  /\ reqs[1].postId = reqs[2].postId
  /\ reqs[1].id # reqs[2].id
  /\ reqs[1].pc = "done" /\ reqs[2].pc = "done"
  /\ Len(events) = 2
  /\ origin[1].req = 2 /\ origin[2].req = 1
  /\ commentsByPostId[reqs[1].postId][1].id = reqs[1].id
  /\ commentsByPostId[reqs[1].postId][2].id = reqs[2].id

\* C28: in every state, handling a CommentModerated event whose postId has no
\* stored list, or whose id no comment under that postId carries, leaves the
\* collection as it is: no status changes and no entry appears for the postId
C28_UnmatchedModerationChangesNothing ==
  \A e \in ModeratedEvents :
    Target(e) = 0 =>
      LET after == CommentsOnEvent(commentsByPostId, e)
      IN  /\ DOMAIN after = DOMAIN commentsByPostId
          /\ \A p \in DOMAIN commentsByPostId : after[p] = commentsByPostId[p]

\* the comments service has just handled a CommentModerated event that matched no
\* comment: it stores comments under one post id only and all are still pending
C28_Witness ==
  /\ resp.svc = "comments" /\ resp.logged = "CommentModerated" /\ resp.status = 200
  /\ Cardinality(DOMAIN commentsByPostId) = 1
  /\ \A p \in DOMAIN commentsByPostId :
       /\ Len(commentsByPostId[p]) = 2
       /\ \A i \in DOMAIN commentsByPostId[p] : commentsByPostId[p][i].status = "pending"

\* C29 as claimed: no form component ever shows its error message and its success
\* message together
C29_NeverBothMessages ==
  \A k \in Components : ~(ErrorShown(form[k]) /\ SuccessShown(form[k]))

\* C30: in every state the input class of a form component is 'form-input error'
\* exactly when its error message is shown, and typing while the message is shown
\* removes the message and sets the class to 'form-input'
C30_ClassFollowsError ==
  /\ [](\A k \in Components :
          (form[k].inputClass = "form-input error") <=> ErrorShown(form[k]))
  /\ [][\A k \in Components :
          ((\E v \in Texts : Type(k, v)) /\ ErrorShown(form[k])) =>
            (~ErrorShown(form'[k]) /\ form'[k].inputClass = "form-input")]_vars

\* the failure message of one component was removed by typing, the other component
\* shows its validation message with the class 'form-input error'
C30_Witness ==
  \E k, j \in Components :
    /\ k # j
    /\ form[k].text = << "a", "a" >>
    /\ ~ErrorShown(form[k]) /\ form[k].inputClass = "form-input"
    /\ form[j].error = ValidationMessage(j) /\ form[j].inputClass = "form-input error"

\* C25: the bus imposes no order on arrivals: in every state each call in flight,
\* whatever its place in the log and whatever has arrived at the other participants,
\* can be the next to arrive; all that holds of a participant's arrivals is that
\* they are calls the bus made, each at most once
C25_NoDeliveryOrder ==
  /\ \A d \in outbox : ENABLED (\E x \in BOOLEAN : Deliver(d, x))
  /\ \A p \in Receivers :
       /\ \A i \in DOMAIN received[p] : received[p][i] \in DOMAIN issued[p]
       /\ \A i, j \in DOMAIN received[p] : i # j => received[p][i] # received[p][j]

\* two different events of the log have arrived at the posts service in the
\* opposite order of the log and at the comments service in the order of the log
C25_Witness ==
  /\ received["posts"] = << 2, 1 >>
  /\ received["comments"] = << 1, 2 >>
  /\ issued["posts"][1] # issued["posts"][2]

\* C21: CommentList and PostList: once the fetch has settled the component is not
\* loading; when the fetch failed, or answered with data that is not a list
\* (CommentList) or is null (PostList), it shows the empty state with no records.
C21_FailedFetchShowsEmpty ==
  /\ (commentList.fetches = {} /\ commentList.settled # << >>) =>
       LET last == commentList.settled[Len(commentList.settled)]
           v == RenderedList(commentList)
       IN /\ ~v.loading
          /\ (~last.ok \/ ~last.data.isArray) =>
               (v.empty /\ v.count = 0 /\ v.items = << >>)
  /\ (~postList.fetching) =>
       LET v == RenderedPosts(postList)
       IN /\ ~v.loading
          /\ (postList.outcome = "rejected" \/ postList.posts.isNull) =>
               (v.empty /\ v.cards = {})

C21_Witness ==
  /\ commentList.fetches = {}
  /\ ~commentList.settled[1].ok
  /\ RenderedList(commentList).empty
  /\ ~postList.fetching
  /\ postList.outcome = "resolved"
  /\ postList.posts.isNull
  /\ RenderedPosts(postList).empty

\* C27: CommentList: when postId changed from A to B while the fetch for A was in
\* flight, then once both fetches have settled, in either order, the component is
\* not loading and shows the comments the fetch for B returned.
C27_ShowsLatestPostIdsComments ==
  (commentList.fetches = {} /\ commentList.started = 2) =>
    /\ ~RenderedList(commentList).loading
    /\ \A i \in DOMAIN commentList.settled :
         commentList.settled[i].n = 2 =>
           commentList.comments =
             IF commentList.settled[i].ok /\ commentList.settled[i].data.isArray
             THEN commentList.settled[i].data.value
             ELSE << >>

\* C22: App dark mode toggle: each click flips the mode, so n clicks end in the
\* other mode exactly when n is odd and two clicks restore the starting mode;
\* after each click document.body has the class 'dark-mode' exactly when dark
\* mode is on. localStorage 'darkMode' holds the JSON of the current mode when
\* setItem works; when setItem throws it keeps the text it held.
C22_ToggleFlipsMode ==
  /\ [](app.pc = "ready" =>
         /\ app.darkMode = (app.base # (app.clicks % 2 = 1))
         /\ app.bodyClass = (IF app.darkMode THEN "dark-mode" ELSE "")
         /\ app.stored = (IF app.setThrows THEN app.found
                          ELSE JSONStringify(app.darkMode)))
  /\ [][(app.pc = "ready" /\ app'.clicks = app.clicks + 1) =>
          app'.darkMode = ~app.darkMode]_vars

\* the mount ended in light mode and the toggle was clicked three times: dark mode
\* is on, on the body and in localStorage
C22_Witness ==
  /\ app.pc = "ready"
  /\ ~app.base
  /\ app.clicks = 3
  /\ app.darkMode
  /\ app.bodyClass = "dark-mode"
  /\ app.stored = "true"

\* C22 as stated: after each click localStorage 'darkMode' holds the JSON of the
\* current mode
C22_StoredFollowsEveryClick ==
  (app.pc = "ready" /\ app.clicks > 0) => app.stored = JSONStringify(app.darkMode)

\* C23: App dark mode on mount: the app never crashes; when getItem returns 'true'
\* the mount ends in dark mode; when getItem throws, or returns text that is not
\* valid JSON or not a boolean, the mount ends in light mode; a setItem that
\* throws changes neither.
C23_MountMode ==
  /\ ~app.crashed
  /\ (app.pc = "ready" /\ app.clicks = 0) =>
       /\ (app.found = "true" /\ ~app.getThrows) =>
            (app.darkMode /\ app.bodyClass = "dark-mode")
       /\ (\/ app.getThrows
           \/ app.found \in {"1", "null", "\"dark\"", "invalid-json"}) =>
            (~app.darkMode /\ app.bodyClass = "")

\* localStorage held 'true' and setItem throws: the mount ended in dark mode
C23_Witness ==
  /\ app.pc = "ready"
  /\ app.clicks = 0
  /\ app.found = "true"
  /\ app.setThrows
  /\ app.darkMode
  /\ app.bodyClass = "dark-mode"

\* C23 as stated: 'true' ends the mount in dark mode when no access throws, and
\* the mount ends in light mode whenever an access to localStorage throws
C23_AnyThrowEndsLight ==
  (app.pc = "ready" /\ app.clicks = 0) =>
    /\ (app.found = "true" /\ ~app.getThrows /\ ~app.setThrows) => app.darkMode
    /\ (app.getThrows \/ app.setThrows) => ~app.darkMode

====
